---- MODULE Spec2Model ----
(***************************************************************************)
(* Model of Sources/RapidFuzz/rapidfuzz.cpp: the C interface around        *)
(* rapidfuzz::fuzz::CachedRatio<std::string_view>.                          *)
(*                                                                         *)
(* The heap is a pair of growing tables: bufs holds every block obtained   *)
(* with malloc, blocks holds every object obtained with `new CachedRatio`. *)
(* An index into a table is a pointer, NULL is 0, and an index is never    *)
(* handed out twice, so every allocation keeps its own history.            *)
(* A double is modelled as an exact rational <<numerator, denominator>>    *)
(* in lowest terms.                                                        *)
(***************************************************************************)
EXTENDS Integers, Sequences, FiniteSets, TLC

\* ---------------------------------------------------------------- bounds
MaxLen == 2
MaxCandLen == 1
MaxAllocs == 2
MaxLevLen == 2
NThreads == 2

\* bytes a string is made of: the terminator and a letter
Bytes == {0, 97}
NULL == 0

RECURSIVE SeqsUpTo(_)
SeqsUpTo(n) ==
    IF n = 0 THEN {<<>>}
    ELSE LET shorter == SeqsUpTo(n - 1)
         IN  shorter \cup {Append(s, b) : s \in {t \in shorter : Len(t) = n - 1}, b \in Bytes}

\* what a caller can pass to init as `const char *str` (the terminator that
\* ends the caller's memory is implicit)
Strings == SeqsUpTo(MaxLen)

\* what a caller can pass to ratio as `str, len`
Candidates == SeqsUpTo(MaxCandLen)

\* ------------------------------------------------------------- rationals
RECURSIVE GCD(_, _)
GCD(a, b) == IF b = 0 THEN a ELSE GCD(b, a % b)

Rat(n, d) == LET g == GCD(IF n < 0 THEN -n ELSE n, d) IN <<n \div g, d \div g>>
RatDiv(q, k) == Rat(q[1], q[2] * k)
RatSubFrom(k, q) == Rat(k * q[2] - q[1], q[2])
RatLeq(p, q) == p[1] * q[2] <= q[1] * p[2]
Zero == <<0, 1>>
One == <<1, 1>>

\* ----------------------------------------------------- the collaborator
\* weighted Levenshtein distance with weights (insert 1, delete 1, replace 2)
RECURSIVE InDel(_, _)
InDel(s1, s2) ==
    IF Len(s1) = 0 THEN Len(s2)
    ELSE IF Len(s2) = 0 THEN Len(s1)
    ELSE IF Head(s1) = Head(s2) THEN InDel(Tail(s1), Tail(s2))
    ELSE LET a == InDel(Tail(s1), s2)
             b == InDel(s1, Tail(s2))
         IN  1 + (IF a < b THEN a ELSE b)

\* rapidfuzz::fuzz::CachedRatio::ratio: a percentage, 100 for identical
CachedRatio_ratio(s1, s2) ==
    IF Len(s1) = 0 \/ Len(s2) = 0
    THEN (IF Len(s1) = 0 /\ Len(s2) = 0 THEN <<100, 1>> ELSE <<0, 1>>)
    ELSE LET lensum == Len(s1) + Len(s2)
         IN  Rat(100 * lensum - 100 * InDel(s1, s2), lensum)

\* ------------------------------------------------------------- the state
VARIABLES
    handle,     \* the caller's RapidFuzzCachedRatio struct
    bufs,       \* malloc'ed blocks: [state, bytes, frees]
    blocks,     \* objects from `new CachedRatio`: [storage, object, view, dtors]
    pc,         \* "idle", "deinit" (between the two halves of deinit), "aborted"
    lastOp,     \* the call that started last: "none", "create", "score", "destroy";
                \* on the copy: "copy", "scorecopy", "destroycopy"
    outcome,    \* how the last create ended: "none", "ready", "nomem", "threw"
    pre,        \* the handle as it was when the last call started
    ref,        \* the str argument of the last create
    cand,       \* the candidate of the last score
    ret,        \* the value the last score returned
    consulted,  \* whether the last score called block->ratio
    allocated,  \* how many allocations the last init left behind
    released,   \* how many free / destructor calls the last deinit made
    memo,       \* an earlier score on the current handle: <<candidate, value>> or <<>>
    caller,     \* the caller's memory that held str: [state, bytes]
    thr,        \* per thread, a rapidfuzz_cached_ratio call in progress
    copy,       \* a by-value copy of the handle struct, kept by the caller
    lev         \* the last rapidfuzz_levenshtein call: [called, s1, s2, ret]

\* what the single-owner, single-thread lifecycle leaves alone
extra == <<caller, thr, copy, lev>>

vars == <<handle, bufs, blocks, pc, lastOp, outcome, pre, ref, cand, ret,
          consulted, allocated, released, memo, caller, thr, copy, lev>>

Threads == 1..NThreads

\* ------------------------------------------------------------ rapidfuzz.cpp
rapidfuzz_cached_null == [buffer |-> NULL, buflen |-> 0, block |-> NULL]

\* strlen on the caller's memory: str followed by the terminator
RECURSIVE strlen(_)

\* mutant: the length of the caller's array is taken, zero bytes or not
strlen_WholeArray(str) == Len(str)

strlen(str) ==
    IF Len(str) = 0 \/ Head(str) = 0 THEN 0 ELSE 1 + strlen(Tail(str))

\* memcpy(cache.buffer, str, cache.buflen); cache.buffer[cache.buflen] = 0;
InitBufferBytes(str, buflen) == Append(SubSeq(str, 1, buflen), 0)

\* mutant: the half-filled local is returned as it is
InitAllocFailed_ReturnsCache(cache) == cache

\* `return rapidfuzz_cached_null();` when malloc returned NULL
InitAllocFailed(cache) == rapidfuzz_cached_null

\* mutant: the view takes the terminator in
InitView_WithTerminator(cache) == [ptr |-> cache.buffer, len |-> cache.buflen + 1]

\* where the caller's own string lives: no block of the handle's heap
CallerPtr == 0 - 1

\* mutant: the view is taken over the caller's string, not over the copy
InitView_Aliased(cache) == [ptr |-> CallerPtr, len |-> cache.buflen]

\* mutant: the view stops one byte short of the reference
InitView_Short(cache) ==
    [ptr |-> cache.buffer, len |-> IF cache.buflen > 0 THEN cache.buflen - 1 ELSE 0]

\* std::string_view(cache.buffer, cache.buflen)
InitView(cache) == [ptr |-> cache.buffer, len |-> cache.buflen]

\* the bytes a string_view reads
ViewBytes(view) == SubSeq(bufs[view.ptr].bytes, 1, view.len)

\* mutant: the fixed value for a handle that is not ready is 0
rapidfuzz_cached_ratio_NullIsZero(cached, str) ==
    IF cached.buffer = NULL \/ cached.block = NULL
    THEN [value |-> Zero, consulted |-> FALSE]
    ELSE LET score == CachedRatio_ratio(ViewBytes(blocks[cached.block].view), str)
         IN  [value |-> RatSubFrom(1, RatDiv(score, 100)), consulted |-> TRUE]

\* mutant: the percentage is scaled but not turned into a distance
rapidfuzz_cached_ratio_Similarity(cached, str) ==
    IF cached.buffer = NULL \/ cached.block = NULL
    THEN [value |-> One, consulted |-> FALSE]
    ELSE LET score == CachedRatio_ratio(ViewBytes(blocks[cached.block].view), str)
         IN  [value |-> RatDiv(score, 100), consulted |-> TRUE]

\* mutant: the previous result is handed out again for a candidate of the
\* same length
rapidfuzz_cached_ratio_Stale(cached, str) ==
    IF cached.buffer = NULL \/ cached.block = NULL
    THEN [value |-> One, consulted |-> FALSE]
    ELSE IF lastOp = "score" /\ Len(cand) = Len(str)
    THEN [value |-> ret, consulted |-> TRUE]
    ELSE LET score == CachedRatio_ratio(ViewBytes(blocks[cached.block].view), str)
         IN  [value |-> RatSubFrom(1, RatDiv(score, 100)), consulted |-> TRUE]

\* mutant: a handle of length 0 is taken for the empty handle
rapidfuzz_cached_ratio_EmptyLen(cached, str) ==
    IF cached.buffer = NULL \/ cached.block = NULL \/ cached.buflen = 0
    THEN [value |-> One, consulted |-> FALSE]
    ELSE LET score == CachedRatio_ratio(ViewBytes(blocks[cached.block].view), str)
         IN  [value |-> RatSubFrom(1, RatDiv(score, 100)), consulted |-> TRUE]

rapidfuzz_cached_ratio(cached, str) ==
    IF cached.buffer = NULL \/ cached.block = NULL
    THEN [value |-> One, consulted |-> FALSE]
    ELSE LET score == CachedRatio_ratio(ViewBytes(blocks[cached.block].view), str)
         IN  [value |-> RatSubFrom(1, RatDiv(score, 100)), consulted |-> TRUE]

\* mutant: the pointer to the destructed object is kept
DeinitBlockHandle_KeepsBlock(h) == h

\* cached->block = NULL;
DeinitBlockHandle(h) == [h EXCEPT !.block = NULL]

\* mutant: the length is not reset
DeinitBufferHandle_KeepsLen(h) == [h EXCEPT !.buffer = NULL]

\* cached->buffer = NULL; cached->buflen = 0;
DeinitBufferHandle(h) == [h EXCEPT !.buffer = NULL, !.buflen = 0]

\* mutant: the buffer is released before the object is destructed
DeinitOrder_BufferFirst == <<"buffer", "block">>

\* the order of the two halves of rapidfuzz_cached_deinit
DeinitOrder == <<"block", "buffer">>

\* block->~CachedRatio(): the object ends and its members with it; the
\* storage operator new gave is not handed to operator delete
Destruct(b) == [b EXCEPT !.object = "destroyed",
                         !.view = [ptr |-> NULL, len |-> 0],
                         !.dtors = @ + 1]

\* free(cached->buffer): the block is released, its contents are gone
Free(b) == [b EXCEPT !.state = "freed", !.bytes = <<>>, !.frees = @ + 1]

\* s is [handle, bufs, blocks, n]
deinit_block(s) ==
    IF s.handle.block # NULL
    THEN [s EXCEPT !.blocks[s.handle.block] = Destruct(@),
                   !.handle = DeinitBlockHandle(@),
                   !.n = @ + 1]
    ELSE s

\* mutant: the pointers are cleared but free is forgotten
deinit_buffer_NoFree(s) ==
    IF s.handle.buffer # NULL
    THEN [s EXCEPT !.handle = DeinitBufferHandle(@)]
    ELSE s

deinit_buffer(s) ==
    IF s.handle.buffer # NULL
    THEN [s EXCEPT !.bufs[s.handle.buffer] = Free(@),
                   !.handle = DeinitBufferHandle(@),
                   !.n = @ + 1]
    ELSE s

deinit_half(which, s) == IF which = "block" THEN deinit_block(s) ELSE deinit_buffer(s)

\* --------------------------------------------------------------- actions
\* no caller memory is tracked
NoCaller == [state |-> "none", bytes |-> <<>>]

\* no rapidfuzz_cached_ratio call in progress on the thread
ThreadIdle == [pc |-> "idle", cached |-> rapidfuzz_cached_null, str |-> <<>>, ret |-> Zero]

\* no rapidfuzz_levenshtein call made yet
NoLev == [called |-> FALSE, s1 |-> <<>>, s2 |-> <<>>, ret |-> Zero]

\* the state before the first call, the caller's memory apart
InitRest ==
    /\ thr = [t \in Threads |-> ThreadIdle]
    /\ copy = rapidfuzz_cached_null
    /\ lev = NoLev
    /\ handle = rapidfuzz_cached_null
    /\ bufs = <<>>
    /\ blocks = <<>>
    /\ pc = "idle"
    /\ lastOp = "none"
    /\ outcome = "none"
    /\ pre = rapidfuzz_cached_null
    /\ ref = <<>>
    /\ cand = <<>>
    /\ ret = Zero
    /\ consulted = FALSE
    /\ allocated = 0
    /\ released = 0
    /\ memo = <<>>

Init ==
    /\ caller = NoCaller
    /\ InitRest

\* live malloc blocks plus CachedRatio storage not handed back
InUse(bs, ks) ==
    Cardinality({i \in DOMAIN bs : bs[i].state = "live"})
    + Cardinality({j \in DOMAIN ks : ks[j].storage = "held"})

\* the record of earlier score calls ends when the handle is replaced
ScoreForgotten ==
    /\ cand' = <<>>
    /\ ret' = Zero
    /\ consulted' = FALSE
    /\ memo' = <<>>

\* handle = rapidfuzz_cached_init(str), malloc returning NULL
CreateNoMem(str) ==
    /\ pc = "idle"
    /\ handle = rapidfuzz_cached_null
    /\ Len(bufs) < MaxAllocs
    /\ LET cache == [rapidfuzz_cached_null EXCEPT !.buflen = strlen(str)]
       IN  handle' = InitAllocFailed(cache)
    /\ lastOp' = "create"
    /\ outcome' = "nomem"
    /\ pre' = handle
    /\ ref' = str
    /\ ScoreForgotten
    /\ released' = 0
    /\ UNCHANGED <<bufs, blocks, pc>>
    /\ UNCHANGED extra
    /\ allocated' = InUse(bufs', blocks') - InUse(bufs, blocks)

\* handle = rapidfuzz_cached_init(str), both allocations succeeding
CreateOk(str) ==
    /\ pc = "idle"
    /\ handle = rapidfuzz_cached_null
    /\ Len(bufs) < MaxAllocs
    /\ LET buflen == strlen(str)
           buffer == Len(bufs) + 1
           block  == Len(blocks) + 1
           cache  == [buffer |-> buffer, buflen |-> buflen, block |-> NULL]
       IN  /\ bufs' = Append(bufs, [state |-> "live",
                                    bytes |-> InitBufferBytes(str, buflen),
                                    frees |-> 0])
           /\ blocks' = Append(blocks, [storage |-> "held",
                                        object  |-> "constructed",
                                        view    |-> InitView(cache),
                                        dtors   |-> 0])
           /\ handle' = [cache EXCEPT !.block = block]
    /\ lastOp' = "create"
    /\ outcome' = "ready"
    /\ pre' = handle
    /\ ref' = str
    /\ ScoreForgotten
    /\ released' = 0
    /\ UNCHANGED pc
    /\ UNCHANGED extra
    /\ allocated' = InUse(bufs', blocks') - InUse(bufs, blocks)

\* rapidfuzz_cached_init(str), malloc succeeding and `new CachedRatio`
\* throwing std::bad_alloc: nothing catches it, the function returns no
\* handle and the buffer stays allocated.  The exception leaves a function
\* declared nothrow: the process is terminated or the caller is unwound.
CreateThrow(str) ==
    /\ pc = "idle"
    /\ handle = rapidfuzz_cached_null
    /\ Len(bufs) < MaxAllocs
    /\ LET buflen == strlen(str)
       IN  bufs' = Append(bufs, [state |-> "live",
                                 bytes |-> InitBufferBytes(str, buflen),
                                 frees |-> 0])
    /\ pc' \in {"idle", "aborted"}
    /\ lastOp' = "create"
    /\ outcome' = "threw"
    /\ pre' = handle
    /\ ref' = str
    /\ ScoreForgotten
    /\ released' = 0
    /\ UNCHANGED <<handle, blocks>>
    /\ UNCHANGED extra
    /\ allocated' = InUse(bufs', blocks') - InUse(bufs, blocks)

\* rapidfuzz_cached_ratio(handle, str, len): the handle is passed by value
Score(str) ==
    /\ pc = "idle"
    /\ LET r == rapidfuzz_cached_ratio(handle, str)
       IN  /\ ret' = r.value
           /\ consulted' = r.consulted
           /\ \/ memo' = <<str, r.value>>
              \/ UNCHANGED memo
    /\ lastOp' = "score"
    /\ pre' = handle
    /\ cand' = str
    /\ UNCHANGED <<handle, bufs, blocks, pc, outcome, ref, allocated, released>>
    /\ UNCHANGED extra

\* rapidfuzz_cached_deinit(&handle), first half
DeinitFirst ==
    /\ pc = "idle"
    /\ LET s == deinit_half(DeinitOrder[1],
                   [handle |-> handle, bufs |-> bufs, blocks |-> blocks, n |-> 0])
       IN  /\ handle' = s.handle
           /\ bufs' = s.bufs
           /\ blocks' = s.blocks
           /\ released' = s.n
    /\ pc' = "deinit"
    /\ lastOp' = "destroy"
    /\ pre' = handle
    /\ outcome' = "none"
    /\ ref' = <<>>
    /\ allocated' = 0
    /\ ScoreForgotten
    /\ UNCHANGED extra

\* rapidfuzz_cached_deinit(&handle), second half and return
DeinitSecond ==
    /\ pc = "deinit"
    /\ LET s == deinit_half(DeinitOrder[2],
                   [handle |-> handle, bufs |-> bufs, blocks |-> blocks, n |-> released])
       IN  /\ handle' = s.handle
           /\ bufs' = s.bufs
           /\ blocks' = s.blocks
           /\ released' = s.n
    /\ pc' = "idle"
    /\ UNCHANGED <<lastOp, outcome, pre, ref, cand, ret, consulted, allocated, memo>>
    /\ UNCHANGED extra

Next ==
    \/ \E str \in Strings : CreateNoMem(str)
    \/ \E str \in Strings : CreateOk(str)
    \/ \E str \in Strings : CreateThrow(str)
    \/ \E str \in Candidates : Score(str)
    \/ DeinitFirst
    \/ DeinitSecond

Spec == Init /\ [][Next]_vars

\* ---------------------------------------------------------------- claims
BothPresent(h) == h.buffer # NULL /\ h.block # NULL
BothAbsent(h) == h.buffer = NULL /\ h.block = NULL

\* the reference a create call is given: the bytes before the first zero
CStr(str) == SubSeq(str, 1, strlen(str))

\* a destroy call has returned
Destroyed == pc = "idle" /\ lastOp = "destroy"

\* C1: after the destroy that ends a create -> score* -> destroy cycle,
\* nothing that create allocated is still allocated: every malloc'ed buffer
\* is freed and the storage of every precomputed state is given back.
\* (Stated for runs in which every create returned: as many states as
\* buffers have been allocated.)
C1_NoLeakAfterDestroy ==
    (Destroyed /\ Len(blocks) = Len(bufs))
        => /\ \A i \in DOMAIN bufs : bufs[i].state = "freed"
           /\ \A j \in DOMAIN blocks : blocks[j].storage = "released"

\* C2: when destroy has returned, the handle is empty: buffer absent, state
\* absent, length 0, whether it was ready or empty before.
C2_EmptyAfterDestroy ==
    Destroyed => handle.buffer = NULL /\ handle.block = NULL /\ handle.buflen = 0

C2_Witness ==
    Destroyed /\ BothPresent(pre) /\ pre.buflen > 0 /\ handle = rapidfuzz_cached_null

\* C3: no buffer is freed twice, no state is destructed twice, the handle is
\* empty after every destroy, and a destroy of an empty handle releases
\* nothing.
C3_DestroyIdempotent ==
    /\ \A i \in DOMAIN bufs : bufs[i].frees <= 1
    /\ \A j \in DOMAIN blocks : blocks[j].dtors <= 1
    /\ Destroyed => handle = rapidfuzz_cached_null
    /\ (lastOp = "destroy" /\ BothAbsent(pre)) => released = 0

\* a destroy of the handle that an earlier destroy emptied
C3_Witness ==
    /\ Destroyed /\ BothAbsent(pre) /\ released = 0
    /\ \E i \in DOMAIN bufs : bufs[i].frees = 1
    /\ \E j \in DOMAIN blocks : blocks[j].dtors = 1

\* C4: a score call on a handle that is not ready returns 1 and does not
\* reach the collaborator.
C4_NotReadyScoresOne ==
    (lastOp = "score" /\ ~BothPresent(pre)) => ret = One /\ consulted = FALSE

\* a second score call, with a non-empty candidate, on a destroyed handle
C4_Witness ==
    /\ lastOp = "score" /\ ~BothPresent(pre) /\ Len(cand) > 0 /\ memo # <<>>
    /\ \E i \in DOMAIN bufs : bufs[i].state = "freed"
    /\ ret = One

\* C5: a create whose malloc fails returns the empty handle (length 0 too),
\* throws nothing, builds no state and leaves nothing allocated.
C5_AllocFailureGivesEmpty ==
    (lastOp = "create" /\ outcome = "nomem")
        => /\ handle = rapidfuzz_cached_null
           /\ pc = "idle"
           /\ allocated = 0

\* the failing create was given a reference of length > 0
C5_Witness ==
    /\ lastOp = "create" /\ outcome = "nomem" /\ strlen(ref) > 0
    /\ handle = rapidfuzz_cached_null

\* C6: every create that does not yield a ready handle returns (nothing is
\* thrown), returns the empty handle, and leaves no buffer allocated.
C6_EveryErrorPathReturnsEmpty ==
    (lastOp = "create" /\ outcome # "ready")
        => /\ outcome = "nomem"
           /\ pc = "idle"
           /\ handle = rapidfuzz_cached_null
           /\ allocated = 0

\* a ready handle: both fields present, buffer and state alive, the buffer
\* holding buflen bytes and the terminator, the state viewing exactly the
\* first buflen bytes of the handle's buffer
IsReady(h) ==
    /\ BothPresent(h)
    /\ bufs[h.buffer].state = "live"
    /\ Len(bufs[h.buffer].bytes) = h.buflen + 1
    /\ blocks[h.block].object = "constructed"
    /\ blocks[h.block].view = [ptr |-> h.buffer, len |-> h.buflen]

\* C7: whenever no call is in progress the handle is ready or empty; create
\* takes an empty handle to a ready or an empty one, destroy takes a ready
\* or an empty handle to an empty one, score leaves the handle as it is.
C7_ReadyOrEmpty ==
    pc = "idle"
        => /\ handle = rapidfuzz_cached_null \/ IsReady(handle)
           /\ BothPresent(pre) \/ pre = rapidfuzz_cached_null
           /\ lastOp = "create" => pre = rapidfuzz_cached_null
           /\ lastOp = "destroy" => handle = rapidfuzz_cached_null
           /\ lastOp = "score" => handle = pre

\* a second cycle: a ready handle of a non-empty reference, created after an
\* earlier one was destroyed
C7_Witness ==
    /\ pc = "idle" /\ lastOp = "create" /\ IsReady(handle) /\ handle.buflen > 0
    /\ \E i \in DOMAIN bufs : bufs[i].frees = 1

\* C8: a constructed (not yet destructed) state never views a buffer that
\* is not live, in any state, the one between the two halves of destroy
\* included.
C8_StateFinalizedBeforeBufferFreed ==
    \A j \in DOMAIN blocks :
        blocks[j].object = "constructed"
            => /\ blocks[j].view.ptr \in DOMAIN bufs
               /\ bufs[blocks[j].view.ptr].state = "live"

\* between the halves of destroy: the state is destructed, its buffer is
\* still allocated
C8_Witness ==
    /\ pc = "deinit" /\ BothPresent(pre)
    /\ blocks[pre.block].object = "destroyed"
    /\ bufs[pre.buffer].state = "live"

\* C9: a score call changes neither the handle nor the buffer nor the
\* precomputed state, and it returns what an earlier score call on the same
\* handle returned for the same candidate, whatever was scored in between.
C9_ScoreIsPure ==
    [][lastOp' = "score"
        => /\ handle' = handle
           /\ bufs' = bufs
           /\ blocks' = blocks
           /\ (memo # <<>> /\ memo[1] = cand') => ret' = memo[2]]_vars

\* a ready handle scored again with a remembered candidate, after a call
\* with another candidate
C9_Witness ==
    /\ lastOp = "score" /\ BothPresent(handle)
    /\ memo # <<>> /\ memo[1] # cand /\ memo[2] # ret

\* C10: a score call on a ready handle built from reference r returns
\* 1 - p/100, p the collaborator's percentage of r and the candidate, with
\* 0 <= p <= 100, so the value is in [0, 1].
C10_ScoreIsOneMinusPct ==
    (lastOp = "score" /\ BothPresent(pre))
        => LET p == CachedRatio_ratio(CStr(ref), cand)
           IN  /\ 0 <= p[1] /\ p[1] <= 100 * p[2]
               /\ ret[2] > 0
               /\ ret[1] * 100 * p[2] = (100 * p[2] - p[1]) * ret[2]
               /\ 0 <= ret[1] /\ ret[1] <= ret[2]

\* a value strictly between 0 and 1
C10_Witness ==
    /\ lastOp = "score" /\ BothPresent(pre) /\ consulted
    /\ 0 < ret[1] /\ ret[1] < ret[2]

\* C11: a ready handle created from reference r scores r itself as 0.
C11_SelfScoreIsZero ==
    (lastOp = "score" /\ BothPresent(pre) /\ cand = CStr(ref)) => ret = Zero

\* a non-empty reference scored against itself
C11_Witness ==
    /\ lastOp = "score" /\ BothPresent(pre) /\ consulted
    /\ cand = CStr(ref) /\ Len(cand) > 0 /\ ret = Zero

\* ------------------------------------------- the caller's own string (C12)
\* the caller holds a string in its own memory, creates the handle from it
\* and is then free to overwrite or free that memory
InitCaller ==
    /\ caller \in {[state |-> "valid", bytes |-> s] : s \in Strings}
    /\ InitRest

\* handle = rapidfuzz_cached_init(str), str the caller's string
CallerCreate ==
    /\ caller.state = "valid"
    /\ CreateOk(caller.bytes)

\* the caller writes other bytes over its string
CallerOverwrite(b) ==
    /\ pc = "idle"
    /\ caller.state = "valid"
    /\ Len(b) = Len(caller.bytes)
    /\ b # caller.bytes
    /\ caller' = [caller EXCEPT !.bytes = b]
    /\ UNCHANGED <<handle, bufs, blocks, pc, lastOp, outcome, pre, ref, cand, ret,
                   consulted, allocated, released, memo, thr, copy, lev>>

\* the caller frees its string
CallerFree ==
    /\ pc = "idle"
    /\ caller.state = "valid"
    /\ caller' = [state |-> "freed", bytes |-> <<>>]
    /\ UNCHANGED <<handle, bufs, blocks, pc, lastOp, outcome, pre, ref, cand, ret,
                   consulted, allocated, released, memo, thr, copy, lev>>

NextCaller ==
    \/ CallerCreate
    \/ \E b \in Strings : CallerOverwrite(b)
    \/ CallerFree
    \/ \E str \in Candidates : Score(str)
    \/ DeinitFirst
    \/ DeinitSecond

SpecCaller == InitCaller /\ [][NextCaller]_vars

\* v = 1 - p/100, for rationals v and p
IsOneMinusPct(v, p) ==
    v[2] > 0 /\ v[1] * 100 * p[2] = (100 * p[2] - p[1]) * v[2]

\* C12: whatever the caller does to its own string after create, a ready
\* handle's state views the handle's own buffer, the buffer holds the
\* reference as it was when create was called, and score answers for that
\* reference.
C12_IndependentCopy ==
    (pc = "idle" /\ BothPresent(handle))
        => /\ blocks[handle.block].view.ptr = handle.buffer
           /\ handle.buffer \in DOMAIN bufs
           /\ bufs[handle.buffer].bytes = Append(CStr(ref), 0)
           /\ lastOp = "score"
                => IsOneMinusPct(ret, CachedRatio_ratio(CStr(ref), cand))

\* a score call answered after the caller overwrote the string the handle
\* was created from
C12_Witness ==
    /\ pc = "idle" /\ BothPresent(handle) /\ lastOp = "score" /\ consulted
    /\ caller.state = "valid" /\ CStr(caller.bytes) # CStr(ref)
    /\ ret = Zero

\* the same, after the caller freed its string
C12_WitnessFreed ==
    /\ pc = "idle" /\ BothPresent(handle) /\ lastOp = "score" /\ consulted
    /\ caller.state = "freed"

\* -------------------------------------------- concurrent score calls (C13)
\* Several threads call rapidfuzz_cached_ratio on the caller's handle.  A
\* call takes the struct by value on entry, tests it, then reads the
\* precomputed state; create and destroy run only while no call is in
\* progress (the caller serializes them against the readers).
ThreadsQuiet == \A t \in Threads : thr[t].pc = "idle"

\* mutant: the candidate goes through a buffer all threads share
ThreadArg_Shared(t) == cand

\* std::string_view(str, len): the call's own arguments
ThreadArg(t) == thr[t].str

\* entry and the test of line 52
ThreadCall(t, str) ==
    /\ pc = "idle"
    /\ thr[t].pc = "idle"
    /\ thr' = [thr EXCEPT ![t] =
                 IF handle.buffer = NULL \/ handle.block = NULL
                 THEN [pc |-> "returned", cached |-> handle, str |-> str, ret |-> One]
                 ELSE [pc |-> "checked", cached |-> handle, str |-> str, ret |-> Zero]]
    /\ cand' = str
    /\ UNCHANGED <<handle, bufs, blocks, pc, lastOp, outcome, pre, ref, ret,
                   consulted, allocated, released, memo, caller, copy, lev>>

\* block->ratio(...) and the adaptation of line 60
ThreadRatio(t) ==
    /\ thr[t].pc = "checked"
    /\ LET score == CachedRatio_ratio(ViewBytes(blocks[thr[t].cached.block].view),
                                      ThreadArg(t))
       IN  thr' = [thr EXCEPT ![t].pc = "returned",
                              ![t].ret = RatSubFrom(1, RatDiv(score, 100))]
    /\ UNCHANGED <<handle, bufs, blocks, pc, lastOp, outcome, pre, ref, cand, ret,
                   consulted, allocated, released, memo, caller, copy, lev>>

\* the caller takes the value
ThreadReturn(t) ==
    /\ thr[t].pc = "returned"
    /\ thr' = [thr EXCEPT ![t] = ThreadIdle]
    /\ UNCHANGED <<handle, bufs, blocks, pc, lastOp, outcome, pre, ref, cand, ret,
                   consulted, allocated, released, memo, caller, copy, lev>>

QuietCreate(str) == ThreadsQuiet /\ CreateOk(str)

QuietDeinit == ThreadsQuiet /\ DeinitFirst

NextThreads ==
    \/ \E str \in Strings : QuietCreate(str)
    \/ \E t \in Threads, str \in Candidates : ThreadCall(t, str)
    \/ \E t \in Threads : ThreadRatio(t)
    \/ \E t \in Threads : ThreadReturn(t)
    \/ QuietDeinit
    \/ DeinitSecond

SpecThreads == Init /\ [][NextThreads]_vars

\* C13: however the score calls of several threads interleave, a call in
\* progress holds the handle as it still is, a call about to read the state
\* finds state and buffer alive, and a call returns what the same call
\* returns when it runs alone.
C13_ConcurrentScoresAgree ==
    \A t \in Threads :
        /\ thr[t].pc # "idle" => thr[t].cached = handle
        /\ thr[t].pc = "checked"
             => /\ blocks[thr[t].cached.block].object = "constructed"
                /\ bufs[thr[t].cached.buffer].state = "live"
        /\ thr[t].pc = "returned"
             => thr[t].ret = rapidfuzz_cached_ratio(thr[t].cached, thr[t].str).value

\* two calls on a ready handle overlapped and returned different values
C13_Witness ==
    \E t, u \in Threads :
        /\ thr[t].pc = "returned" /\ thr[u].pc = "returned"
        /\ BothPresent(thr[t].cached) /\ thr[u].cached = thr[t].cached
        /\ thr[t].str # thr[u].str /\ thr[t].ret # thr[u].ret

\* ------------------------------------------- rapidfuzz_levenshtein (C14-C17)
\* what a caller can pass as `s1, len1` or `s2, len2`: the zero byte is a
\* byte like any other here
LevStrings == SeqsUpTo(MaxLevLen)

Min3(a, b, c) == IF a <= b /\ a <= c THEN a ELSE IF b <= c THEN b ELSE c

\* Levenshtein distance, every edit of weight 1
RECURSIVE Levenshtein(_, _)
Levenshtein(s1, s2) ==
    IF Len(s1) = 0 THEN Len(s2)
    ELSE IF Len(s2) = 0 THEN Len(s1)
    ELSE IF Head(s1) = Head(s2) THEN Levenshtein(Tail(s1), Tail(s2))
    ELSE 1 + Min3(Levenshtein(Tail(s1), s2),
                  Levenshtein(s1, Tail(s2)),
                  Levenshtein(Tail(s1), Tail(s2)))

\* rapidfuzz::string_metric::normalized_levenshtein: a percentage
normalized_levenshtein(s1, s2) ==
    IF Len(s1) = 0 \/ Len(s2) = 0
    THEN (IF Len(s1) = 0 /\ Len(s2) = 0 THEN <<100, 1>> ELSE <<0, 1>>)
    ELSE LET max_dist == IF Len(s1) > Len(s2) THEN Len(s1) ELSE Len(s2)
         IN  Rat(100 * max_dist - 100 * Levenshtein(s1, s2), max_dist)

\* mutant: the percentage is not scaled
rapidfuzz_levenshtein_NoScale(s1, len1, s2, len2) ==
    LET score == normalized_levenshtein(SubSeq(s1, 1, len1), SubSeq(s2, 1, len2))
    IN  RatSubFrom(1, score)

\* mutant: the second view stops one byte short
rapidfuzz_levenshtein_ShortView(s1, len1, s2, len2) ==
    LET score == normalized_levenshtein(SubSeq(s1, 1, len1),
                     SubSeq(s2, 1, IF len2 > 0 THEN len2 - 1 ELSE 0))
    IN  RatSubFrom(1, RatDiv(score, 100))

\* mutant: the second view is cut to the length of the first
rapidfuzz_levenshtein_Truncating(s1, len1, s2, len2) ==
    LET score == normalized_levenshtein(SubSeq(s1, 1, len1),
                     SubSeq(s2, 1, IF len1 < len2 THEN len1 ELSE len2))
    IN  RatSubFrom(1, RatDiv(score, 100))

\* mutant: the percentage is scaled but not turned into a distance
rapidfuzz_levenshtein_Similarity(s1, len1, s2, len2) ==
    LET score == normalized_levenshtein(SubSeq(s1, 1, len1), SubSeq(s2, 1, len2))
    IN  RatDiv(score, 100)

rapidfuzz_levenshtein(s1, len1, s2, len2) ==
    LET score == normalized_levenshtein(SubSeq(s1, 1, len1), SubSeq(s2, 1, len2))
    IN  RatSubFrom(1, RatDiv(score, 100))

\* rapidfuzz_levenshtein(a, len(a), b, len(b))
LevCall(a, b) ==
    /\ pc = "idle"
    /\ lev' = [called |-> TRUE, s1 |-> a, s2 |-> b,
               ret |-> rapidfuzz_levenshtein(a, Len(a), b, Len(b))]
    /\ UNCHANGED <<handle, bufs, blocks, pc, lastOp, outcome, pre, ref, cand, ret,
                   consulted, allocated, released, memo, caller, thr, copy>>

NextLev ==
    \/ \E str \in Strings : CreateOk(str)
    \/ \E a \in LevStrings, b \in LevStrings : LevCall(a, b)

SpecLev == Init /\ [][NextLev]_vars

\* C14: rapidfuzz_levenshtein(a, b) is 1 - p/100, p the collaborator's
\* normalized Levenshtein percentage of a and b with 0 <= p <= 100, so the
\* value is in [0, 1]; and the call changes no handle, buffer or state.
C14_LevIsOneMinusPct ==
    /\ [](lev.called
            => LET p == normalized_levenshtein(lev.s1, lev.s2)
               IN  /\ 0 <= p[1] /\ p[1] <= 100 * p[2]
                   /\ IsOneMinusPct(lev.ret, p)
                   /\ 0 <= lev.ret[1] /\ lev.ret[1] <= lev.ret[2])
    /\ [][lev' # lev => (handle' = handle /\ bufs' = bufs /\ blocks' = blocks)]_vars

\* a value strictly between 0 and 1, computed while a ready handle exists
C14_Witness ==
    /\ lev.called /\ 0 < lev.ret[1] /\ lev.ret[1] < lev.ret[2]
    /\ BothPresent(handle)

\* C15: rapidfuzz_levenshtein(s, s) is 0, for the empty s too.
C15_LevSelfIsZero ==
    (lev.called /\ lev.s1 = lev.s2) => lev.ret = Zero

C15_Witness ==
    lev.called /\ lev.s1 = lev.s2 /\ Len(lev.s1) = MaxLevLen /\ lev.ret = Zero

\* C16: rapidfuzz_levenshtein(a, b) = rapidfuzz_levenshtein(b, a).
C16_LevSymmetric ==
    lev.called
        => lev.ret = rapidfuzz_levenshtein(lev.s2, Len(lev.s2), lev.s1, Len(lev.s1))

\* arguments of different lengths with a value strictly between 0 and 1
C16_Witness ==
    /\ lev.called /\ Len(lev.s1) < Len(lev.s2)
    /\ 0 < lev.ret[1] /\ lev.ret[1] < lev.ret[2]

\* C17: an empty argument against a non-empty one gives 1, either way round.
C17_LevEmptyVsNonEmptyIsOne ==
    (lev.called /\ ((Len(lev.s1) = 0) # (Len(lev.s2) = 0))) => lev.ret = One

C17_Witness ==
    lev.called /\ Len(lev.s1) = 0 /\ Len(lev.s2) > 0 /\ lev.ret = One

\* ------------------------------------------------ the stored reference
\* how many bytes of str precede its first zero byte
BytesBeforeZero(str) ==
    IF \E i \in 1..Len(str) : str[i] = 0
    THEN (CHOOSE i \in 1..Len(str) :
              str[i] = 0 /\ \A j \in 1..(i - 1) : str[j] # 0) - 1
    ELSE Len(str)

\* C18: a ready handle created from str stores exactly the bytes of str
\* before its first zero byte: buflen is their number, the buffer holds them
\* and one terminator (buflen + 1 bytes), the state views the first buflen
\* bytes of the buffer, and no byte after an embedded zero is stored.
C18_ReferenceIsCString ==
    (pc = "idle" /\ BothPresent(handle))
        => LET n == BytesBeforeZero(ref)
               b == bufs[handle.buffer].bytes
           IN  /\ handle.buflen = n
               /\ Len(b) = n + 1
               /\ \A i \in 1..n : b[i] = ref[i] /\ b[i] # 0
               /\ b[n + 1] = 0
               /\ blocks[handle.block].view = [ptr |-> handle.buffer, len |-> n]
               /\ ViewBytes(blocks[handle.block].view) = SubSeq(ref, 1, n)

\* created from a string with a letter after an embedded zero
C18_Witness ==
    /\ pc = "idle" /\ BothPresent(handle) /\ lastOp = "create"
    /\ \E i \in 1..Len(ref) : ref[i] = 0 /\ i < Len(ref) /\ ref[Len(ref)] # 0
    /\ handle.buflen < Len(ref)

\* C19: create on a reference of length 0, both allocations succeeding,
\* gives a handle with buffer and state present, length 0 and a buffer of
\* one terminator byte; score on it goes to the collaborator, so the empty
\* candidate scores 0 and not the fixed 1.
C19_EmptyReferenceIsReady ==
    /\ (pc = "idle" /\ lastOp = "create" /\ outcome = "ready" /\ BytesBeforeZero(ref) = 0)
            => /\ handle.buffer # NULL /\ handle.block # NULL
               /\ handle.buflen = 0
               /\ bufs[handle.buffer].bytes = <<0>>
               /\ blocks[handle.block].object = "constructed"
    /\ (lastOp = "score" /\ BothPresent(pre) /\ pre.buflen = 0)
            => /\ consulted
               /\ IsOneMinusPct(ret, CachedRatio_ratio(<<>>, cand))
               /\ cand = <<>> => ret = Zero

\* the empty candidate scored on the handle of the empty reference
C19_Witness ==
    /\ lastOp = "score" /\ BothPresent(pre) /\ pre.buflen = 0
    /\ cand = <<>> /\ consulted /\ ret = Zero

\* --------------------------------------- a by-value copy of the handle (C20)
\* The caller keeps a second struct, copied from the handle, and uses both.
\* both fields set, and the buffer or the state they point to is gone
Dangling(h) ==
    /\ BothPresent(h)
    /\ \/ bufs[h.buffer].state # "live"
       \/ blocks[h.block].object # "constructed"

\* what a read of released memory can produce
GarbageValues == {Zero, One, <<1, 2>>}

\* copy = handle;
MakeCopy ==
    /\ pc = "idle"
    /\ BothPresent(handle)
    /\ ~Dangling(handle)
    /\ copy # handle
    /\ copy' = handle
    /\ lastOp' = "copy"
    /\ UNCHANGED <<handle, bufs, blocks, pc, outcome, pre, ref, cand, ret,
                   consulted, allocated, released, memo, caller, thr, lev>>

\* rapidfuzz_cached_ratio(copy, str, len).  When the test of line 52 lets a
\* dangling copy through, block->ratio reads a destructed object and a freed
\* buffer: any value can come back, or the process dies.
ScoreCopy(str) ==
    /\ pc = "idle"
    /\ IF Dangling(copy)
       THEN /\ ret' \in GarbageValues
            /\ consulted' = ~(copy.buffer = NULL \/ copy.block = NULL)
            /\ pc' \in {"idle", "aborted"}
       ELSE /\ ret' = rapidfuzz_cached_ratio(copy, str).value
            /\ consulted' = rapidfuzz_cached_ratio(copy, str).consulted
            /\ pc' = pc
    /\ lastOp' = "scorecopy"
    /\ pre' = copy
    /\ cand' = str
    /\ UNCHANGED <<handle, bufs, blocks, outcome, ref, allocated, released, memo,
                   caller, thr, copy, lev>>

\* rapidfuzz_cached_deinit(&copy).  On a dangling copy the destructor runs
\* on a destructed object and free gets a freed pointer: the process goes on
\* or dies.
DestroyCopy ==
    /\ pc = "idle"
    /\ LET s == deinit_half(DeinitOrder[2], deinit_half(DeinitOrder[1],
                   [handle |-> copy, bufs |-> bufs, blocks |-> blocks, n |-> 0]))
       IN  /\ copy' = s.handle
           /\ bufs' = s.bufs
           /\ blocks' = s.blocks
           /\ released' = s.n
    /\ IF Dangling(copy) THEN pc' \in {"idle", "aborted"} ELSE pc' = pc
    /\ lastOp' = "destroycopy"
    /\ pre' = copy
    /\ outcome' = "none"
    /\ allocated' = 0
    /\ ScoreForgotten
    /\ UNCHANGED <<handle, ref, caller, thr, lev>>

\* rapidfuzz_cached_deinit(&handle), the handle's resources still alive
OwnerDeinit == ~Dangling(handle) /\ DeinitFirst

NextCopy ==
    \/ \E str \in Strings : CreateOk(str)
    \/ MakeCopy
    \/ \E str \in Candidates : ScoreCopy(str)
    \/ DestroyCopy
    \/ OwnerDeinit
    \/ DeinitSecond

SpecCopy == Init /\ [][NextCopy]_vars

\* C20: when destroy of the handle has returned, a copy made of it before
\* still has every field it had and now points to a freed buffer and a
\* destructed state; score on a copy with both fields set goes past the
\* test for the empty handle, dangling or not; and destroying a copy whose
\* original was destroyed frees the buffer and destructs the state a second
\* time.
C20_CopyOutlivesDestroy ==
    /\ (Destroyed /\ BothPresent(pre) /\ copy.buffer = pre.buffer)
            => /\ copy = pre
               /\ handle = rapidfuzz_cached_null
               /\ bufs[copy.buffer].state = "freed"
               /\ blocks[copy.block].object = "destroyed"
    /\ (lastOp = "scorecopy" /\ BothPresent(pre)) => consulted
    /\ (lastOp = "destroycopy" /\ BothPresent(pre) /\ handle.buffer # pre.buffer)
            => /\ bufs[pre.buffer].frees = 2
               /\ blocks[pre.block].dtors = 2
               /\ copy = rapidfuzz_cached_null

\* the original was destroyed, the copy was scored past the test and then
\* destroyed too
C20_Witness ==
    /\ lastOp = "destroycopy" /\ BothPresent(pre)
    /\ handle = rapidfuzz_cached_null
    /\ bufs[pre.buffer].frees = 2

\* a dangling copy scored: the test did not return the fixed 1
C20_WitnessScore ==
    /\ lastOp = "scorecopy" /\ consulted /\ BothPresent(copy)
    /\ handle = rapidfuzz_cached_null
    /\ bufs[copy.buffer].state = "freed"
    /\ ret # One

====
